---- MODULE Spec2Model ----
(***************************************************************************)
(* Model of the game-tree search repository: the TicTacToe and Connect4   *)
(* game objects (tictactoe.py, connect4.py), the ab_minimax and            *)
(* MCTSPlayer strategies (player.py) and the play loops.                   *)
(*                                                                         *)
(* Python lists are functions over 0..len-1 so that the source's indices   *)
(* are kept.  None is the string "None" for current_winner and the empty   *)
(* tuple <<>> for last_move / position (an integer m is <<m>>).            *)
(***************************************************************************)
EXTENDS Integers, Sequences, FiniteSets, TLC

VARIABLES
  heap,      \* the lists of the program: address -> list (object spec)
  g,         \* the game object the caller holds
  c,         \* the object returned by g.copy(), NullObj before the call
  last,      \* the last method call on g or c: its inputs, result, pre-state
  calls,     \* number of calls made after construction
  game,      \* the game a strategy is asked about / a play loop runs on
  probe,     \* the last call of a strategy: its inputs and what it returned
  play,      \* the locals of play_tictactoe / play_connect4
  tree,      \* MCTSPlayer.tree: node id -> node
  mc         \* the MCTSPlayer and the locals of its get_move_values / get_move

vars == <<heap, g, c, last, calls, game, probe, play, tree, mc>>
objVars == <<heap, g, c, last, calls>>

None == "None"
Letters == {"X", "O"}
Other(l) == IF l = "X" THEN "O" ELSE "X"

(***************************************************************************)
(* Python integer and list primitives                                      *)
(***************************************************************************)
\* len(list)
Len0(list) == Cardinality(DOMAIN list)

\* list[i]: a negative index counts from the end; out of range raises.
InRange(list, i) == i >= -Len0(list) /\ i < Len0(list)
Norm(list, i) == IF i < 0 THEN i + Len0(list) ELSE i

\* the bounds of list[a:b] after Python's clipping
Clip(n, i) == IF i < 0 THEN (IF i + n < 0 THEN 0 ELSE i + n)
              ELSE (IF i > n THEN n ELSE i)
\* list[a:b] as the set of indices it selects (empty when start >= stop)
SliceIdx(list, a, b) == {i \in DOMAIN list : i >= Clip(Len0(list), a) /\ i < Clip(Len0(list), b)}

(***************************************************************************)
(* TicTacToe (values: the board list's contents are held in the record)    *)
(***************************************************************************)
TTT == "TicTacToe"
C4 == "Connect4"

TicTacToe_init == [kind |-> TTT, board |-> [i \in 0..8 |-> " "],
                   current_winner |-> None, last_move |-> <<>>]

\* the indices 0..n-1 in ascending order, as enumerate() and range() give them
Indices(n) == [i \in 1..n |-> i - 1]
\* the elements of a list comprehension's result
ToSet(seq) == {seq[i] : i \in DOMAIN seq}

TicTacToe_available_moves(s) == LET free(i) == s.board[i] = " " IN SelectSeq(Indices(9), free)

TicTacToe_empty_squares(s) == \E i \in DOMAIN s.board : s.board[i] = " "

TicTacToe_num_empty_squares(s) == Cardinality({i \in DOMAIN s.board : s.board[i] = " "})

\* winner(square, letter) on board b
TicTacToe_winner(b, square, letter) ==
  LET row_ind == square \div 3
      row == SliceIdx(b, row_ind * 3, (row_ind + 1) * 3)
      col_ind == square % 3
      column == {col_ind + i * 3 : i \in 0..2}
  IN  \/ \A i \in row : b[i] = letter
      \/ \A i \in column : b[i] = letter
      \/ /\ square % 2 = 0
         /\ \/ \A i \in {0, 4, 8} : b[i] = letter
            \/ \A i \in {2, 4, 6} : b[i] = letter

\* make_move(square, letter): the result and the state after the call
TicTacToe_make_move(s, square, letter) ==
  IF ~InRange(s.board, square)
  THEN [ret |-> "IndexError", state |-> s]
  ELSE IF s.board[Norm(s.board, square)] = " "
       THEN LET b == [s.board EXCEPT ![Norm(s.board, square)] = letter]
            IN  [ret |-> "True",
                 state |-> [s EXCEPT !.board = b,
                                     !.last_move = <<square>>,
                                     !.current_winner =
                                        IF TicTacToe_winner(b, square, letter)
                                        THEN letter ELSE s.current_winner]]
       ELSE [ret |-> "False", state |-> s]

(***************************************************************************)
(* Connect4                                                                *)
(***************************************************************************)
rows == 6
cols == 7

make_board == [r \in 0..(rows - 1) |-> [k \in 0..(cols - 1) |-> " "]]

Connect4_init == [kind |-> C4, board |-> make_board,
                  current_winner |-> None, last_move |-> <<>>]

\* the columns whose bottom cell is empty
Connect4_available_moves_bottom(s) ==
  LET open(col) == s.board[rows - 1][col] = " " IN SelectSeq(Indices(cols), open)

\* a test of the second row from the top instead of the top row
Connect4_available_moves_second_row(s) ==
  LET open(col) == s.board[1][col] = " " IN SelectSeq(Indices(cols), open)

Connect4_available_moves(s) == LET open(col) == s.board[0][col] = " " IN SelectSeq(Indices(cols), open)

Connect4_empty_squares(s) == \E r \in DOMAIN s.board : \E k \in DOMAIN s.board[r] : s.board[r][k] = " "

Connect4_num_empty_squares(s) ==
  Cardinality({rc \in (0..(rows - 1)) \X (0..(cols - 1)) : s.board[rc[1]][rc[2]] = " "})

\* check_direction(delta_row, delta_col) from (r, k): the length of the run
RECURSIVE check_direction(_, _, _, _, _, _)
check_direction(b, letter, r, k, delta_row, delta_col) ==
  IF 0 <= r /\ r < rows /\ 0 <= k /\ k < cols /\ b[r][k] = letter
  THEN 1 + check_direction(b, letter, r + delta_row, k + delta_col, delta_row, delta_col)
  ELSE 0

\* the directions without the down-left diagonal
directions_no_down_left == {<<0, 1>>, <<1, 0>>, <<1, 1>>}

directions == {<<0, 1>>, <<1, 0>>, <<1, 1>>, <<1, -1>>}

Connect4_winner(b, row, col, letter) ==
  \E d \in directions :
     check_direction(b, letter, row, col, d[1], d[2])
       + check_direction(b, letter, row, col, -d[1], -d[2]) - 1 >= 4

\* a loop that runs from the top row down: the highest empty row of the column
DropRow_from_top(b, col) == CHOOSE r \in 0..(rows - 1) :
                               /\ b[r][col] = " "
                               /\ \A q \in 0..(r - 1) : b[q][col] # " "

\* the row the loop of make_move stops at: the lowest empty one of the column
DropRow(b, col) == CHOOSE r \in 0..(rows - 1) :
                      /\ b[r][col] = " "
                      /\ \A q \in (r + 1)..(rows - 1) : b[q][col] # " "

Connect4_make_move(s, col, letter) ==
  IF col \notin ToSet(Connect4_available_moves(s))
  THEN [ret |-> "False", state |-> s]
  ELSE IF \E r \in 0..(rows - 1) : s.board[r][col] = " "
       THEN LET row == DropRow(s.board, col)
                b == [s.board EXCEPT ![row][col] = letter]
            IN  [ret |-> "True",
                 state |-> [s EXCEPT !.board = b,
                                     !.last_move = <<col>>,
                                     !.current_winner =
                                        IF Connect4_winner(b, row, col, letter)
                                        THEN letter ELSE s.current_winner]]
       ELSE [ret |-> "False", state |-> s]

(***************************************************************************)
(* The GameState interface both strategies use (dynamic dispatch)          *)
(***************************************************************************)
available_moves(s) == IF s.kind = TTT THEN TicTacToe_available_moves(s)
                      ELSE Connect4_available_moves(s)

empty_squares(s) == IF s.kind = TTT THEN TicTacToe_empty_squares(s)
                    ELSE Connect4_empty_squares(s)

num_empty_squares(s) == IF s.kind = TTT THEN TicTacToe_num_empty_squares(s)
                        ELSE Connect4_num_empty_squares(s)

make_move(s, move, letter) == IF s.kind = TTT THEN TicTacToe_make_move(s, move, letter)
                              ELSE Connect4_make_move(s, move, letter)

\* the state a list of (move, letter) calls leaves behind
RECURSIVE PlayMoves(_, _)
PlayMoves(s, ms) ==
  IF ms = <<>> THEN s
  ELSE PlayMoves(make_move(s, ms[1][1], ms[1][2]).state, Tail(ms))

(***************************************************************************)
(* ab_minimax (player.py).  me is self.letter; math.inf is Inf, above      *)
(* every score (|score| <= cells + 1).                                     *)
(***************************************************************************)
Inf == 1000

max2(a, b) == IF a >= b THEN a ELSE b
min2(a, b) == IF a <= b THEN a ELSE b

\* simulate_move: state.copy(), then make_move on the copy
simulate_move(state, col, player) == make_move(state, col, player).state

\* a heuristic that values a won position without bound
evaluate_state_unbounded(me, state) ==
  IF state.current_winner = me THEN Inf
  ELSE IF state.current_winner = Other(me) THEN -Inf
  ELSE 0

evaluate_state(me, state) ==
  IF state.current_winner = me THEN 1
  ELSE IF state.current_winner = Other(me) THEN -1
  ELSE 0

\* a reversed comparison
prune_reversed(alpha, beta) == beta >= alpha

\* the test of the break at the end of minimax's loop body
prune(alpha, beta) == beta <= alpha

\* minimax(state, player, alpha, beta, depth, max_depth) of the player
\* with letter me; brk = FALSE is the same recursion with the break removed.
\* The result carries cut: whether some break left moves untried,
\* deepest: the largest depth argument of the calls made for it, and
\* repeated: whether some call that placed pieces did so for the player who
\* had placed the piece before.
\* the player whose piece the last move placed: the piece on the square, or
\* the topmost piece of the column
last_placer(state) ==
  IF state.last_move = <<>> THEN None
  ELSE IF state.kind = TTT THEN state.board[state.last_move[1]]
  ELSE LET col == state.last_move[1]
           top == CHOOSE r \in 0..(rows - 1) :
                     /\ state.board[r][col] # " "
                     /\ \A q \in 0..(r - 1) : state.board[q][col] = " "
       IN  state.board[top][col]

RECURSIVE minimax(_, _, _, _, _, _, _, _)
RECURSIVE minimax_loop(_, _, _, _, _, _, _, _, _, _, _)
minimax(me, brk, state, player, alpha, beta, depth, max_depth) ==
  LET other_player == Other(player)
  IN  IF state.current_winner = other_player
      THEN [position |-> <<>>, cut |-> FALSE, deepest |-> depth, repeated |-> FALSE,
            score |-> IF other_player = me THEN num_empty_squares(state) + 1
                      ELSE -(num_empty_squares(state) + 1)]
      ELSE IF ~empty_squares(state)
      THEN [position |-> <<>>, cut |-> FALSE, deepest |-> depth, repeated |-> FALSE, score |-> 0]
      ELSE IF depth = max_depth
      THEN [position |-> <<>>, cut |-> FALSE, deepest |-> depth, repeated |-> FALSE,
            score |-> evaluate_state(me, state)]
      ELSE minimax_loop(me, brk, state, player, alpha, beta, depth, max_depth,
                        available_moves(state), 1,
                        [position |-> <<>>, cut |-> FALSE, deepest |-> depth,
                         repeated |-> last_placer(state) = player,
                         score |-> IF player = me THEN -Inf ELSE Inf])

\* the for loop of minimax from the i-th available move on
minimax_loop(me, brk, state, player, alpha, beta, depth, max_depth, moves, i, best) ==
  IF i > Len(moves) THEN best
  ELSE
    LET col == moves[i]
        rec == minimax(me, brk, simulate_move(state, col, player), Other(player),
                       alpha, beta, depth + 1, max_depth)
        sim_score == [rec EXCEPT !.position = <<col>>]
        better == IF player = me THEN sim_score.score > best.score
                  ELSE sim_score.score < best.score
        nbest == IF better
                 THEN [sim_score EXCEPT !.cut = @ \/ best.cut,
                                        !.deepest = max2(@, best.deepest),
                                        !.repeated = @ \/ best.repeated]
                 ELSE [best EXCEPT !.cut = @ \/ sim_score.cut,
                                   !.deepest = max2(@, sim_score.deepest),
                                   !.repeated = @ \/ sim_score.repeated]
        nalpha == IF player = me THEN max2(alpha, nbest.score) ELSE alpha
        nbeta == IF player = me THEN beta ELSE min2(beta, nbest.score)
    IN  IF brk /\ prune(nalpha, nbeta)
        THEN [nbest EXCEPT !.cut = @ \/ i < Len(moves)]
        ELSE minimax_loop(me, brk, state, player, nalpha, nbeta, depth, max_depth,
                          moves, i + 1, nbest)

\* the max_depth minimax runs with when get_move_values calls it: the default
\* of the parameter, since the call passes none
default_max_depth == 4

\* get_move_values(game): the (move, score) pairs in insertion order, each
\* with the largest depth its minimax call reached
get_move_values(me, brk, state) ==
  LET moves == available_moves(state)
      rec(i) == minimax(me, brk, make_move(state, moves[i], me).state, me,
                        -Inf, Inf, 0, default_max_depth)
  IN  [i \in 1..Len(moves) |->
         [move |-> moves[i], value |-> rec(i).score, deepest |-> rec(i).deepest,
          repeated |-> rec(i).repeated]]

\* max(move_values, key=move_values.get): the first key of the largest value
RECURSIVE max_by_value(_, _, _)
max_by_value(mv, i, best) ==
  IF i > Len(mv) THEN best
  ELSE max_by_value(mv, i + 1, IF mv[i].value > mv[best].value THEN i ELSE best)

\* get_move(game): the move returned, or the ValueError of max() on an empty dict
best_move(move_values) ==
  IF Len(move_values) = 0 THEN [ret |-> "ValueError", move |-> <<>>]
  ELSE [ret |-> "ok", move |-> <<move_values[max_by_value(move_values, 1, 1)].move>>]

get_move(me, brk, state) == best_move(get_move_values(me, brk, state))

\* the largest depth argument of the minimax calls of get_move_values(game),
\* -1 when it makes none
RECURSIVE deepest_call(_, _)
deepest_call(move_values, i) ==
  IF i > Len(move_values) THEN -1
  ELSE max2(move_values[i].deepest, deepest_call(move_values, i + 1))

(***************************************************************************)
(* Game objects on the heap: an object holds the address of its board      *)
(* list; a TicTacToe board is one list of 9 cells, a Connect4 board is a   *)
(* list of 6 row addresses, each row a list of 7 cells.                    *)
(***************************************************************************)
NullObj == [kind |-> "None", board |-> 0, current_winner |-> None, last_move |-> <<>>]
NoValue == [kind |-> "None", board |-> <<>>, current_winner |-> None, last_move |-> <<>>]

\* the addresses of the cell lists of o's board, by row (one row for TicTacToe)
RowAddrs(h, o) == IF o.kind = TTT THEN [r \in {0} |-> o.board] ELSE h[o.board]

\* what the object's methods read: the fields with the board's contents
Value(h, o) ==
  IF o.kind = "None" THEN NoValue
  ELSE [kind |-> o.kind,
        board |-> IF o.kind = TTT THEN h[o.board]
                  ELSE [r \in DOMAIN h[o.board] |-> h[h[o.board][r]]],
        current_winner |-> o.current_winner,
        last_move |-> o.last_move]

\* the heap after o's methods have written board contents b through o's lists
WriteBoard(h, o, b) ==
  LET ra == RowAddrs(h, o)
  IN  [a \in DOMAIN h |->
         IF \E r \in DOMAIN ra : ra[r] = a
         THEN LET r == CHOOSE q \in DOMAIN ra : ra[q] = a
              IN  IF o.kind = TTT THEN b ELSE b[r]
         ELSE h[a]]

\* TicTacToe() / Connect4(): the constructor allocates the board
NewGame(h, kind) ==
  IF kind = TTT
  THEN [heap |-> Append(h, TicTacToe_init.board),
        obj |-> [kind |-> TTT, board |-> Len(h) + 1,
                 current_winner |-> None, last_move |-> <<>>]]
  ELSE [heap |-> h \o [i \in 1..rows |-> make_board[i - 1]]
                   \o <<[r \in 0..(rows - 1) |-> Len(h) + r + 1]>>,
        obj |-> [kind |-> C4, board |-> Len(h) + rows + 1,
                 current_winner |-> None, last_move |-> <<>>]]

\* o.make_move(move, letter): the result, the heap and the object after it
obj_make_move(h, o, move, letter) ==
  LET r == make_move(Value(h, o), move, letter)
  IN  [ret |-> r.ret,
       heap |-> WriteBoard(h, o, r.state.board),
       obj |-> [o EXCEPT !.current_winner = r.state.current_winner,
                         !.last_move = r.state.last_move]]

\* a copy that shares the cell lists of the original
copy_shallow(h, o) ==
  IF o.kind = TTT
  THEN [heap |-> h, obj |-> o]
  ELSE [heap |-> Append(h, h[o.board]),
        obj |-> [o EXCEPT !.board = Len(h) + 1]]

\* o.copy(): board[:] for TicTacToe, [row[:] for row in board] for Connect4
copy(h, o) ==
  IF o.kind = TTT
  THEN [heap |-> Append(h, h[o.board]),
        obj |-> [o EXCEPT !.board = Len(h) + 1]]
  ELSE [heap |-> h \o [i \in 1..rows |-> h[h[o.board][i - 1]]]
                   \o <<[r \in 0..(rows - 1) |-> Len(h) + r + 1]>>,
        obj |-> [o EXCEPT !.board = Len(h) + rows + 1]]

\* Connect4.reset(): a new board, no winner, no last move
reset(h, o) == NewGame(h, o.kind)

(***************************************************************************)
(* Specification Spec: method calls on a game object g and on its copy c   *)
(***************************************************************************)
\* bound on the calls made after the opening
MaxCalls == 3

\* the moves a caller passes: every cell/column, and indices off the board
SquareInputs == {-10, -1} \cup (0..9)
ColInputs == -1..cols
MoveInputs(kind) == IF kind = TTT THEN SquareInputs ELSE ColInputs

\* sequences of successful make_move calls the explored games start from
TTTOpenings ==
  { <<>>,
    <<<<0, "X">>, <<1, "X">>, <<3, "O">>, <<4, "X">>>>,
    <<<<2, "X">>, <<4, "X">>, <<1, "O">>, <<7, "O">>>>,
    <<<<0, "X">>, <<1, "X">>, <<2, "X">>, <<3, "O">>, <<4, "O">>>>,
    <<<<0, "X">>, <<1, "O">>, <<2, "X">>, <<4, "O">>, <<3, "X">>, <<5, "O">>,
      <<7, "X">>, <<6, "O">>>> }

C4Openings ==
  { <<>>,
    <<<<0, "X">>, <<1, "X">>, <<3, "X">>>>,
    <<<<3, "O">>, <<3, "O">>, <<3, "O">>>>,
    <<<<0, "X">>, <<1, "O">>, <<1, "X">>, <<2, "O">>, <<2, "O">>, <<2, "X">>,
      <<3, "O">>, <<3, "O">>, <<3, "O">>>>,
    <<<<6, "X">>, <<5, "O">>, <<5, "X">>, <<4, "O">>, <<4, "O">>, <<4, "X">>,
      <<3, "O">>, <<3, "O">>, <<3, "O">>>>,
    <<<<0, "X">>, <<0, "O">>, <<0, "X">>, <<0, "O">>, <<0, "X">>, <<0, "O">>,
      <<6, "O">>, <<6, "X">>, <<6, "O">>, <<6, "X">>, <<6, "O">>>>,
    <<<<0, "X">>, <<1, "X">>, <<2, "X">>, <<3, "X">>, <<4, "O">>, <<4, "O">>, <<4, "O">>>> }

Openings(kind) == IF kind = TTT THEN TTTOpenings ELSE C4Openings

RECURSIVE ObjPlay(_, _, _)
ObjPlay(h, o, ms) ==
  IF ms = <<>> THEN [heap |-> h, obj |-> o]
  ELSE LET r == obj_make_move(h, o, ms[1][1], ms[1][2])
       IN  ObjPlay(r.heap, r.obj, Tail(ms))

NoResult == [position |-> <<>>, cut |-> FALSE, deepest |-> -1, repeated |-> FALSE, score |-> 0]
NoProbe == [op |-> "none", me |-> "X", player |-> "X", max_depth |-> 0,
            ab |-> NoResult, full |-> NoResult, ret |-> "None", move |-> <<>>,
            deepest |-> -1, values |-> <<>>, repeated |-> <<>>]
NoCallYet == [op |-> "none", on |-> "g", move |-> 0, letter |-> "X", ret |-> "None",
              pre |-> NoValue, other |-> NoValue]
NoPlay == [letter |-> "X", result |-> "None", game_moves |-> <<>>]
NoMCTS == [pc |-> "idle", letter |-> "X", n_iterations |-> 0, it |-> 0,
           leaf_id |-> <<>>, child_id |-> <<>>, result |-> 0,
           sim_game |-> NoValue, sim_player |-> "X", plies |-> 0,
           ret |-> "None", move |-> <<>>, decisions |-> 0]

\* the variables of the other specifications, unused in this one
SearchIdle == game = NoValue /\ probe = NoProbe
PlayIdle == play = NoPlay
MCTSIdle == tree = <<>> /\ mc = NoMCTS
ObjIdle == heap = <<>> /\ g = NullObj /\ c = NullObj /\ calls = 0 /\ last = NoCallYet

NoCall == NoCallYet

Init ==
  \E kind \in {TTT, C4} : \E ms \in Openings(kind) :
     LET n == NewGame(<<>>, kind)
         r == ObjPlay(n.heap, n.obj, ms)
     IN  /\ heap = r.heap
         /\ g = r.obj
         /\ c = NullObj
         /\ last = NoCall
         /\ calls = 0
         /\ SearchIdle /\ PlayIdle /\ MCTSIdle

\* g.make_move(move, letter)
MakeMoveG ==
  \E move \in MoveInputs(g.kind) : \E letter \in Letters :
     LET r == obj_make_move(heap, g, move, letter)
     IN  /\ calls < MaxCalls
         /\ heap' = r.heap
         /\ g' = r.obj
         /\ c' = c
         /\ last' = [op |-> "make_move", on |-> "g", move |-> move, letter |-> letter,
                     ret |-> r.ret, pre |-> Value(heap, g), other |-> Value(heap, c)]
         /\ calls' = calls + 1
         /\ UNCHANGED <<game, probe, play, tree, mc>>

\* c.make_move(move, letter)
MakeMoveC ==
  \E move \in MoveInputs(c.kind) : \E letter \in Letters :
     LET r == obj_make_move(heap, c, move, letter)
     IN  /\ calls < MaxCalls
         /\ c # NullObj
         /\ heap' = r.heap
         /\ c' = r.obj
         /\ g' = g
         /\ last' = [op |-> "make_move", on |-> "c", move |-> move, letter |-> letter,
                     ret |-> r.ret, pre |-> Value(heap, c), other |-> Value(heap, g)]
         /\ calls' = calls + 1
         /\ UNCHANGED <<game, probe, play, tree, mc>>

\* c = g.copy()
Copy ==
  LET r == copy(heap, g)
  IN  /\ calls < MaxCalls
      /\ c = NullObj
      /\ heap' = r.heap
      /\ c' = r.obj
      /\ g' = g
      /\ last' = [NoCall EXCEPT !.op = "copy", !.pre = Value(heap, g)]
      /\ calls' = calls + 1
      /\ UNCHANGED <<game, probe, play, tree, mc>>

\* g.reset() (Connect4 only)
Reset ==
  LET r == reset(heap, g)
  IN  /\ calls < MaxCalls
      /\ g.kind = C4
      /\ heap' = r.heap
      /\ g' = r.obj
      /\ c' = c
      /\ last' = [NoCall EXCEPT !.op = "reset", !.pre = Value(heap, g),
                                !.other = Value(heap, c)]
      /\ calls' = calls + 1
      /\ UNCHANGED <<game, probe, play, tree, mc>>

Next == MakeMoveG \/ MakeMoveC \/ Copy \/ Reset

Spec == Init /\ [][Next]_vars

\* the object the last call was made on, and the other one, as they are now
Target == IF last.on = "g" THEN Value(heap, g) ELSE Value(heap, c)
Bystander == IF last.on = "g" THEN Value(heap, c) ELSE Value(heap, g)

LastMakeMove == last.op = "make_move"
LastSucceeded == LastMakeMove /\ last.ret = "True"

(***************************************************************************)
(* C5: for both games, make_move with a move that is not in                *)
(* available_moves() returns False, raises nothing and leaves board,       *)
(* last_move and current_winner unchanged.                                 *)
(***************************************************************************)
C5_IllegalMoveRejected ==
  (LastMakeMove /\ last.move \notin ToSet(available_moves(last.pre)))
    => (last.ret = "False" /\ Target = last.pre)

(***************************************************************************)
(* C6: Connect4, no winner so far: a successful make_move(col, letter)     *)
(* sets current_winner to letter iff the new piece lies on a horizontal,   *)
(* vertical or diagonal run of at least four of letter's pieces; otherwise *)
(* current_winner stays None.                                              *)
(***************************************************************************)
\* the cell the call filled
NewCell(pre, post) ==
  CHOOSE rc \in (0..(rows - 1)) \X (0..(cols - 1)) :
     pre.board[rc[1]][rc[2]] # post.board[rc[1]][rc[2]]

\* four cells in a line, one of them (r, k), all holding letter
OnRunOfFour(b, r, k, letter, lines) ==
  \E d \in lines : \E off \in 0..3 :
     \A j \in 0..3 :
        LET rr == r + (j - off) * d[1]
            kk == k + (j - off) * d[2]
        IN  /\ rr \in 0..(rows - 1)
            /\ kk \in 0..(cols - 1)
            /\ b[rr][kk] = letter

AllLines == {<<0, 1>>, <<1, 0>>, <<1, 1>>, <<1, -1>>}

C6_Case == LastSucceeded /\ last.pre.kind = C4 /\ last.pre.current_winner = None

C6_Connect4WinIffRun ==
  C6_Case =>
    LET cell == NewCell(last.pre, Target)
        run == OnRunOfFour(Target.board, cell[1], cell[2], last.letter, AllLines)
    IN  /\ (Target.current_winner = last.letter) <=> run
        /\ ~run => Target.current_winner = None

\* a win by a diagonal run only
C6_Witness ==
  /\ C6_Case
  /\ Target.current_winner = last.letter
  /\ LET cell == NewCell(last.pre, Target)
     IN  /\ ~OnRunOfFour(Target.board, cell[1], cell[2], last.letter, {<<0, 1>>, <<1, 0>>})
         /\ OnRunOfFour(Target.board, cell[1], cell[2], last.letter, {<<1, -1>>})

(***************************************************************************)
(* C7: TicTacToe, no winner so far: a successful make_move(square, letter) *)
(* sets current_winner to letter iff one of the 8 lines is entirely letter *)
(* after the placement; otherwise current_winner stays None.               *)
(***************************************************************************)
Lines8 == {{0, 1, 2}, {3, 4, 5}, {6, 7, 8}, {0, 3, 6}, {1, 4, 7}, {2, 5, 8},
           {0, 4, 8}, {2, 4, 6}}

HasLine(b, letter) == \E L \in Lines8 : \A i \in L : b[i] = letter

C7_TicTacToeWinIffLine ==
  (LastSucceeded /\ last.pre.kind = TTT /\ last.pre.current_winner = None)
    => /\ (Target.current_winner = last.letter) <=> HasLine(Target.board, last.letter)
       /\ ~HasLine(Target.board, last.letter) => Target.current_winner = None

(***************************************************************************)
(* C8 as stated: for both games every successful make_move reduces the     *)
(* length of available_moves() by exactly one.                             *)
(***************************************************************************)
C8_AvailableMovesDropByOne ==
  LastSucceeded => Len(available_moves(Target)) = Len(available_moves(last.pre)) - 1

(***************************************************************************)
(* C8 amended: a successful make_move fills exactly one empty cell; for    *)
(* TicTacToe the length of available_moves() drops by exactly one, for     *)
(* Connect4 it drops by exactly one when the piece lands in the top row of *)
(* its column and is unchanged otherwise.                                  *)
(***************************************************************************)
C8_AvailableMovesAmended ==
  LastSucceeded =>
    /\ num_empty_squares(Target) = num_empty_squares(last.pre) - 1
    /\ Len(available_moves(Target)) =
          IF last.pre.kind = TTT \/ Target.board[0][last.move] # " "
          THEN Len(available_moves(last.pre)) - 1
          ELSE Len(available_moves(last.pre))

\* a Connect4 move that fills its column, and so closes it
C8_Witness ==
  /\ LastSucceeded
  /\ last.pre.kind = C4
  /\ Target.board[0][last.move] # " "
  /\ Len(available_moves(Target)) = Len(available_moves(last.pre)) - 1

(***************************************************************************)
(* C9: for both games, once current_winner is not None no later make_move  *)
(* call, by either letter, changes its value.                              *)
(***************************************************************************)
C9_WinnerNeverChanges ==
  (LastMakeMove /\ last.pre.current_winner # None)
    => Target.current_winner = last.pre.current_winner

(***************************************************************************)
(* C10: after c = g.copy(), make_move calls on c leave g's board,          *)
(* current_winner and last_move unchanged, and make_move calls on g leave  *)
(* c unchanged.                                                            *)
(***************************************************************************)
C10_CopyIndependent ==
  (LastMakeMove /\ c # NullObj) => Bystander = last.other

\* a piece placed on the copy of a Connect4 game, and one placed on g after it
C10_Witness ==
  /\ LastSucceeded
  /\ c # NullObj
  /\ g.kind = C4
  /\ last.on = "g"
  /\ Value(heap, c) # Value(heap, g)
  /\ Value(heap, c) # last.pre

(***************************************************************************)
(* Specification SpecSearch: ab_minimax asked about positions of both      *)
(* games                                                                   *)
(***************************************************************************)
\* bound on the max_depth passed to minimax
MaxDepth == 3

\* start positions: sequences of alternating successful make_move calls;
\* with more, each position one further move away is a start as well
SearchStarts ==
  { [kind |-> TTT, more |-> TRUE, moves |-> <<>>],
    [kind |-> TTT, more |-> TRUE, moves |-> <<<<4, "X">>, <<0, "O">>, <<8, "X">>>>],
    [kind |-> TTT, more |-> TRUE,
     moves |-> <<<<0, "X">>, <<4, "O">>, <<1, "X">>, <<2, "O">>>>],
    [kind |-> TTT, more |-> TRUE,
     moves |-> <<<<0, "X">>, <<1, "O">>, <<2, "X">>, <<4, "O">>, <<3, "X">>, <<5, "O">>>>],
    [kind |-> C4, more |-> FALSE, moves |-> <<>>],
    [kind |-> C4, more |-> TRUE,
     moves |-> <<<<1, "X">>, <<0, "O">>, <<2, "X">>, <<0, "O">>, <<3, "X">>, <<0, "O">>>>],
    [kind |-> C4, more |-> FALSE,
     moves |-> <<<<0, "X">>, <<6, "O">>, <<1, "X">>, <<6, "O">>, <<2, "X">>, <<5, "O">>>>],
    [kind |-> C4, more |-> FALSE,
     moves |-> <<<<4, "X">>, <<0, "O">>, <<5, "X">>, <<0, "O">>, <<6, "X">>, <<1, "O">>>>],
    [kind |-> C4, more |-> FALSE,
     moves |-> <<<<0, "X">>, <<4, "O">>, <<1, "X">>, <<4, "O">>, <<3, "X">>, <<5, "O">>>>],
    [kind |-> C4, more |-> FALSE,
     moves |-> <<<<1, "X">>, <<4, "O">>, <<2, "X">>, <<5, "O">>, <<3, "X">>, <<6, "O">>>>] }

NewValue(kind) == IF kind = TTT THEN TicTacToe_init ELSE Connect4_init

\* the letter to move after an alternating sequence of moves that X began
ToMove(moves) == IF Len(moves) % 2 = 0 THEN "X" ELSE "O"

\* the positions a start stands for
StartPositions(st) ==
  LET s == PlayMoves(NewValue(st.kind), st.moves)
  IN  {s} \cup (IF st.more
                THEN {make_move(s, m, ToMove(st.moves)).state : m \in ToSet(available_moves(s))}
                ELSE {})

SearchInit ==
  /\ \E st \in SearchStarts : game \in StartPositions(st)
  /\ probe = NoProbe
  /\ ObjIdle
  /\ PlayIdle
  /\ MCTSIdle

\* ab_minimax(me, max_depth).get_move(game); __init__ stores max_depth and
\* no method reads it
AskGetMove ==
  /\ probe = NoProbe
  /\ \E me \in Letters : \E mv \in {get_move_values(me, TRUE, game)} :
       \E r \in {best_move(mv)} : \E max_depth \in 0..MaxDepth :
          probe' = [NoProbe EXCEPT !.op = "get_move", !.me = me,
                                   !.max_depth = max_depth,
                                   !.ret = r.ret, !.move = r.move,
                                   !.deepest = deepest_call(mv, 1),
                                   !.values = [i \in DOMAIN mv |-> mv[i].value],
                                   !.repeated = [i \in DOMAIN mv |-> mv[i].repeated]]
  /\ UNCHANGED <<game, heap, g, c, last, calls, play, tree, mc>>

\* ab_minimax(me).minimax(game, player, -inf, inf, 0, max_depth), and the
\* same recursion without the break
AskMinimax ==
  /\ probe = NoProbe
  /\ \E me \in Letters : \E player \in Letters : \E max_depth \in 0..MaxDepth :
       \E ab \in {minimax(me, TRUE, game, player, -Inf, Inf, 0, max_depth)} :
       \E full \in {minimax(me, FALSE, game, player, -Inf, Inf, 0, max_depth)} :
          probe' = [NoProbe EXCEPT !.op = "minimax", !.me = me, !.player = player,
                                   !.max_depth = max_depth, !.ab = ab, !.full = full]
  /\ UNCHANGED <<game, heap, g, c, last, calls, play, tree, mc>>

SearchNext == AskGetMove \/ AskMinimax

SpecSearch == SearchInit /\ [][SearchNext]_vars

(***************************************************************************)
(* C1: on a Connect4 state where X has three pieces in a horizontal row    *)
(* and exactly one open cell completes four, ab_minimax('X').get_move      *)
(* returns the column of that cell.                                        *)
(***************************************************************************)
\* the columns where a piece of letter completes a horizontal four
CompletingCols(s, letter) ==
  {col \in ToSet(available_moves(s)) :
     LET row == DropRow(s.board, col)
         b == [s.board EXCEPT ![row][col] = letter]
     IN  OnRunOfFour(b, row, col, letter, {<<0, 1>>})}

C1_Case ==
  /\ probe.op = "get_move"
  /\ probe.me = "X"
  /\ game.kind = C4
  /\ game.current_winner = None
  /\ Cardinality(CompletingCols(game, "X")) = 1

C1_MinimaxCompletesFour ==
  C1_Case => probe.ret = "ok" /\ probe.move[1] \in CompletingCols(game, "X")

(***************************************************************************)
(* C4: minimax called with alpha = -inf, beta = +inf returns the same      *)
(* score and position as the same recursion with the break removed, for    *)
(* every state, mover and depth.                                           *)
(***************************************************************************)
C4_PruningPreservesResult ==
  probe.op = "minimax" =>
    /\ probe.ab.score = probe.full.score
    /\ probe.ab.position = probe.full.position

\* a search in which a break left moves untried
C4_Witness ==
  /\ probe.op = "minimax"
  /\ probe.ab.cut
  /\ probe.ab.position # <<>>
  /\ probe.ab.score # 0

(***************************************************************************)
(* Specification SpecPlay: play_tictactoe(game, x_player, o_player) with   *)
(* x_player = ab_minimax('X', max_depth=9) and an o_player that may return *)
(* any legal move                                                          *)
(***************************************************************************)
PlayInit ==
  /\ game = TicTacToe_init
  /\ play = NoPlay
  /\ probe = NoProbe
  /\ ObjIdle
  /\ MCTSIdle

\* the moves the player of the turn may return
Replies(letter, state) ==
  IF letter = "X" THEN {get_move("X", TRUE, state).move[1]}
  ELSE ToSet(available_moves(state))

\* one pass through the body of the while loop
PlayTurn ==
  /\ play.result = "None"
  /\ Len(available_moves(game)) > 0
  /\ \E square \in Replies(play.letter, game) :
       LET r == make_move(game, square, play.letter)
           won == r.state.current_winner # None
       IN  IF r.ret = "True"
           THEN /\ game' = r.state
                /\ play' = [play EXCEPT
                              !.game_moves = Append(@, square),
                              !.result = IF won THEN play.letter ELSE "None",
                              !.letter = IF won THEN @ ELSE Other(@)]
           ELSE UNCHANGED <<game, play>>
  /\ UNCHANGED <<heap, g, c, last, calls, probe, tree, mc>>

\* the loop ends with no move left: the game is a tie
PlayReturnTie ==
  /\ play.result = "None"
  /\ Len(available_moves(game)) = 0
  /\ play' = [play EXCEPT !.result = "Tie"]
  /\ UNCHANGED <<heap, g, c, last, calls, probe, game, tree, mc>>

PlayNext == PlayTurn \/ PlayReturnTie

SpecPlay == PlayInit /\ [][PlayNext]_vars

(***************************************************************************)
(* C3: from the empty tic-tac-toe board, with ab_minimax as X configured   *)
(* with max_depth = 9, play_tictactoe never returns 'O', whatever legal    *)
(* moves O replies with.                                                   *)
(***************************************************************************)
C3_MinimaxNeverLoses == play.result # "O"

(***************************************************************************)
(* MCTSPlayer (player.py).  A node id is the tuple of moves from the root, *)
(* (0,) being the root; a node is the dict of the source.  The quotient    *)
(* q = w / (n + 1e-4) is kept as the pair <<w, n>> of its operands and     *)
(* compared exactly; q = None is <<>>.                                     *)
(***************************************************************************)
root_id == <<0>>
exploration_constant == 20
\* self.total_n is set in __init__ and assigned nowhere else
total_n == 0

\* the local total_n of selection: self.total_n if it is > 0, else 1
total_n_in_log(self_total_n) == IF self_total_n > 0 THEN self_total_n ELSE 1

\* a tree that still holds a visited node of an earlier search beside the root
_initialize_tree_stale(state, letter) ==
  (root_id :> [state |-> state, player |-> letter, child |-> <<>>, parent |-> <<>>,
               n |-> 0, w |-> 0, q |-> <<>>])
  @@ (<<0, 0>> :> [state |-> state, player |-> Other(letter), child |-> <<>>,
                   parent |-> root_id, n |-> 1, w |-> 1, q |-> <<1, 1>>])

_initialize_tree(state, letter) ==
  root_id :> [state |-> state, player |-> letter, child |-> <<>>, parent |-> <<>>,
              n |-> 0, w |-> 0, q |-> <<>>]

\* w / (n + 1e-4), in millionths (w = 0 gives 0 for every n)
exploit6(w, n) == IF w = 0 THEN 0 ELSE w * ((1000000000 \div (10000 * n + 1)) * 10)

\* exploration_constant * sqrt(log(total_n + 1) / (n + 1e-4)) in millionths,
\* for n = 0, 1, ..., 10, with total_n replaced by 1 as it is not > 0
explore6 ==
  <<1665109222, 16650260, 11773806, 9613352, 8325442, 7446520, 6797723,
    6293476, 5887013, 5550333, 5265511>>

uct6(w, n) == exploit6(w, n) + explore6[n + 1]

\* -np.inf for max_uct
NegInf6 == -2000000000

\* the for loop of selection over the children of node_id, from the i-th on
RECURSIVE best_child(_, _, _, _, _)
best_child(t, node_id, i, max_uct, best) ==
  IF i > Len(t[node_id].child) THEN best
  ELSE LET child_id == Append(node_id, t[node_id].child[i])
           uct == uct6(t[child_id].w, t[child_id].n)
       IN  IF uct > max_uct
           THEN best_child(t, node_id, i + 1, uct, child_id)
           ELSE best_child(t, node_id, i + 1, max_uct, best)

\* the while loop of selection from node_id
RECURSIVE selection_from(_, _)
selection_from(t, node_id) ==
  IF t[node_id].child = <<>> THEN node_id
  ELSE selection_from(t, best_child(t, node_id, 1, NegInf6, <<>>))

selection(t) == selection_from(t, root_id)

\* an expansion whose children keep the leaf's player to move
expansion_same_player(t, leaf_id) ==
  LET leaf == t[leaf_id]
      possible_moves == available_moves(leaf.state)
      children == [i \in DOMAIN possible_moves |-> Append(leaf_id, possible_moves[i])]
      node(move) == [state |-> make_move(leaf.state, move, leaf.player).state,
                     player |-> leaf.player, child |-> <<>>,
                     parent |-> leaf_id, n |-> 0, w |-> 0, q |-> <<0, 0>>]
  IN  IF leaf.n > 0 \/ possible_moves = <<>>
      THEN [tree |-> t, choice |-> {leaf_id}]
      ELSE [tree |-> [id \in DOMAIN t \cup ToSet(children) |->
                        IF id \in ToSet(children) THEN node(id[Len(id)])
                        ELSE IF id = leaf_id
                             THEN [leaf EXCEPT !.child = @ \o possible_moves]
                             ELSE t[id]],
            choice |-> ToSet(children)]

\* expansion(leaf_id): the tree afterwards and the ids random.choice may return
expansion(t, leaf_id) ==
  LET leaf == t[leaf_id]
      possible_moves == available_moves(leaf.state)
      children == [i \in DOMAIN possible_moves |-> Append(leaf_id, possible_moves[i])]
      node(move) == [state |-> make_move(leaf.state, move, leaf.player).state,
                     player |-> Other(leaf.player), child |-> <<>>,
                     parent |-> leaf_id, n |-> 0, w |-> 0, q |-> <<0, 0>>]
  IN  IF leaf.n > 0 \/ possible_moves = <<>>
      THEN [tree |-> t, choice |-> {leaf_id}]
      ELSE [tree |-> [id \in DOMAIN t \cup ToSet(children) |->
                        IF id \in ToSet(children) THEN node(id[Len(id)])
                        ELSE IF id = leaf_id
                             THEN [leaf EXCEPT !.child = @ \o possible_moves]
                             ELSE t[id]],
            choice |-> ToSet(children)]

\* the scoring for loop of simulation, from the i-th possible move on:
\* either it returns from simulation at once, or it fills move_scores
RECURSIVE score_moves(_, _, _, _, _)
score_moves(state, player, possible_moves, i, move_scores) ==
  IF i > Len(possible_moves) THEN [returned |-> FALSE, move_scores |-> move_scores]
  ELSE LET move == possible_moves[i]
           temp_game == make_move(state, move, player).state
       IN  IF temp_game.current_winner = player
           THEN [returned |-> TRUE, move_scores |-> move_scores]
           ELSE IF temp_game.current_winner # None
                THEN score_moves(state, player, possible_moves, i + 1,
                                 Append(move_scores, <<move, -100>>))
                ELSE score_moves(state, player, possible_moves, i + 1,
                                 Append(move_scores, <<move, 0>>))

\* max([s for _, s in move_scores]) of a non-empty move_scores
RECURSIVE max_score(_, _)
max_score(move_scores, i) ==
  IF i = Len(move_scores) THEN move_scores[i][2]
  ELSE max2(move_scores[i][2], max_score(move_scores, i + 1))

\* best_moves of a non-empty move_scores, as the set random.choice draws from
best_moves(move_scores) ==
  {move_scores[i][1] : i \in {j \in DOMAIN move_scores :
                                 move_scores[j][2] = max_score(move_scores, 1)}}

\* one pass through the body of simulation's while loop on (state, player):
\* every outcome the random choice allows.  done: simulation has returned
\* result; otherwise the loop goes on with state and player.
simulation_pass(letter, state, player) ==
  LET possible_moves == available_moves(state)
      sc == score_moves(state, player, possible_moves, 1, <<>>)
      after(move) ==
        LET s2 == make_move(state, move, player).state
        IN  IF s2.current_winner # None
            THEN [done |-> TRUE, result |-> IF s2.current_winner = letter THEN 1 ELSE -1,
                  state |-> s2, player |-> player]
            ELSE [done |-> FALSE, result |-> 0, state |-> s2, player |-> Other(player)]
  IN  IF sc.returned
      THEN {[done |-> TRUE, result |-> IF player = letter THEN 1 ELSE -1,
             state |-> state, player |-> player]}
      ELSE {after(move) : move \in best_moves(sc.move_scores)}

\* a walk up the tree that stops below the root
RECURSIVE backpropagation_below_root(_, _, _)
backpropagation_below_root(t, node_id, result) ==
  IF node_id = <<>> \/ t[node_id].parent = <<>> THEN t
  ELSE LET n2 == t[node_id].n + 1
           w2 == t[node_id].w + result
       IN  backpropagation_below_root([t EXCEPT ![node_id].n = n2, ![node_id].w = w2,
                                                ![node_id].q = <<w2, n2>>],
                                      t[node_id].parent, -result)

\* an update of the simulated node alone, without the walk to the root
backpropagation_node_only(t, node_id, result) ==
  [t EXCEPT ![node_id].n = @ + 1, ![node_id].w = @ + result,
            ![node_id].q = <<t[node_id].w + result, t[node_id].n + 1>>]

RECURSIVE backpropagation(_, _, _)
backpropagation(t, node_id, result) ==
  IF node_id = <<>> THEN t
  ELSE LET n2 == t[node_id].n + 1
           w2 == t[node_id].w + result
       IN  backpropagation([t EXCEPT ![node_id].n = n2, ![node_id].w = w2,
                                     ![node_id].q = <<w2, n2>>],
                           t[node_id].parent, -result)

\* q1 > q2 for q = w / (n + 1e-4) = 10000 w / (10000 n + 1)
q_greater(q1, q2) == q1[1] * (10000 * q2[2] + 1) > q2[1] * (10000 * q1[2] + 1)

RECURSIVE sum_n(_, _)
sum_n(t, i) ==
  IF i > Len(t[root_id].child) THEN 0
  ELSE t[Append(root_id, t[root_id].child[i])].n + sum_n(t, i + 1)

\* the tail of get_move_values: move_values in the dict's order, or the
\* exception the percentages raise
move_values_of(t) ==
  LET child == t[root_id].child
      move_values == [i \in DOMAIN child |->
                        [move |-> child[i], value |-> t[Append(root_id, child[i])].q]]
  IN  IF child # <<>> /\ sum_n(t, 1) = 0
      THEN [ret |-> "ZeroDivisionError", move_values |-> move_values]
      ELSE [ret |-> "ok", move_values |-> move_values]

\* max(move_values, key=move_values.get): the first key of the largest value
RECURSIVE max_by_q(_, _, _)
max_by_q(mv, i, best) ==
  IF i > Len(mv) THEN best
  ELSE IF q_greater(mv[i].value, mv[best].value) THEN max_by_q(mv, i + 1, i)
       ELSE max_by_q(mv, i + 1, best)

\* returns the place of the best move in the dict, not its key
best_move_of_index(t) ==
  LET r == move_values_of(t)
  IN  IF r.ret # "ok" THEN [ret |-> r.ret, move |-> <<>>]
      ELSE IF r.move_values = <<>> THEN [ret |-> "ValueError", move |-> <<>>]
      ELSE [ret |-> "ok", move |-> <<max_by_q(r.move_values, 2, 1)>>]

\* the tail of MCTSPlayer.get_move, after the iterations
best_move_of(t) ==
  LET r == move_values_of(t)
  IN  IF r.ret # "ok" THEN [ret |-> r.ret, move |-> <<>>]
      ELSE IF r.move_values = <<>> THEN [ret |-> "ValueError", move |-> <<>>]
      ELSE [ret |-> "ok", move |-> <<r.move_values[max_by_q(r.move_values, 2, 1)].move>>]

(***************************************************************************)
(* Specification SpecMCTS: one MCTSPlayer(letter, n_iterations).get_move   *)
(* on a position, step by step: selection, expansion, the passes of        *)
(* simulation's loop, backpropagation, and the final choice.  The random   *)
(* choices of expansion and simulation are taken in every possible way.    *)
(***************************************************************************)
\* bound on the n_iterations the player is constructed with
MaxIterations == 4

\* a game played by alternating successful moves, X first
Alternate(moves) == [i \in DOMAIN moves |-> <<moves[i], IF i % 2 = 1 THEN "X" ELSE "O">>]

\* start positions: few cells are left, so that every rollout is followed
MCTSStarts ==
  { [kind |-> TTT, moves |-> <<0, 4, 1>>],
    [kind |-> TTT, moves |-> <<0, 4, 1, 8>>],
    [kind |-> TTT, moves |-> <<0, 4, 1, 2, 8>>],
    [kind |-> TTT, moves |-> <<0, 1, 2, 4, 3, 5, 7>>],
    [kind |-> TTT, moves |-> <<0, 1, 2, 4, 3, 5, 7, 6, 8>>],
    [kind |-> TTT, moves |-> <<0, 3, 1, 4, 2>>],
    [kind |-> C4,
     moves |-> <<3, 6, 6, 3, 0, 1, 3, 0, 0, 5, 1, 1, 1, 2, 0, 6, 0, 3, 2,
                 2, 3, 4, 2, 3, 2, 4, 4, 0, 2, 1, 6, 5, 6, 4, 5, 6, 4, 5>>] }

MCTSInit ==
  /\ \E st \in MCTSStarts :
        /\ game = PlayMoves(NewValue(st.kind), Alternate(st.moves))
        /\ play = [NoPlay EXCEPT !.letter = ToMove(st.moves)]
  /\ tree = <<>>
  /\ mc = NoMCTS
  /\ probe = NoProbe
  /\ ObjIdle

\* MCTSPlayer(play.letter, n_iterations).get_move(game) is entered:
\* get_move_values initializes the tree
MCTSCall ==
  \E n_iterations \in -1..MaxIterations :
     /\ mc.pc = "idle"
     /\ tree' = _initialize_tree(game, play.letter)
     /\ mc' = [NoMCTS EXCEPT !.pc = "selection", !.letter = play.letter,
                             !.n_iterations = n_iterations]
     /\ UNCHANGED <<game, play, probe, objVars>>

\* leaf_id = self.selection()
Selection ==
  /\ mc.pc = "selection"
  /\ mc.it < mc.n_iterations
  /\ mc' = [mc EXCEPT !.pc = "expansion", !.leaf_id = selection(tree)]
  /\ UNCHANGED <<tree, game, play, probe, objVars>>

\* child_id = self.expansion(leaf_id), and the first two lines of simulation
Expansion ==
  LET r == expansion(tree, mc.leaf_id)
  IN  /\ mc.pc = "expansion"
      /\ \E child_id \in r.choice :
            /\ tree' = r.tree
            /\ mc' = [mc EXCEPT !.pc = "simulation", !.child_id = child_id,
                                !.sim_game = r.tree[child_id].state,
                                !.sim_player = r.tree[child_id].player,
                                !.plies = 0]
      /\ UNCHANGED <<game, play, probe, objVars>>

\* one pass through simulation's while loop
SimulationPass ==
  /\ mc.pc = "simulation"
  /\ empty_squares(mc.sim_game)
  /\ \E o \in simulation_pass(mc.letter, mc.sim_game, mc.sim_player) :
        mc' = [mc EXCEPT !.pc = IF o.done THEN "backpropagation" ELSE "simulation",
                         !.result = o.result,
                         !.sim_game = o.state,
                         !.sim_player = o.player,
                         !.plies = IF o.state = mc.sim_game THEN @ ELSE @ + 1]
  /\ UNCHANGED <<tree, game, play, probe, objVars>>

\* simulation's loop ends on a board without an empty square: return 0
SimulationDraw ==
  /\ mc.pc = "simulation"
  /\ ~empty_squares(mc.sim_game)
  /\ mc' = [mc EXCEPT !.pc = "backpropagation", !.result = 0]
  /\ UNCHANGED <<tree, game, play, probe, objVars>>

\* self.backpropagation(child_id, result), the end of one iteration
Backpropagation ==
  /\ mc.pc = "backpropagation"
  /\ tree' = backpropagation(tree, mc.child_id, mc.result)
  /\ mc' = [mc EXCEPT !.pc = "selection", !.it = @ + 1]
  /\ UNCHANGED <<game, play, probe, objVars>>

\* the iterations are over: get_move_values returns and get_move takes the max
MCTSReturn ==
  LET r == best_move_of(tree)
  IN  /\ mc.pc = "selection"
      /\ mc.it >= mc.n_iterations
      /\ mc' = [mc EXCEPT !.pc = "done", !.ret = r.ret, !.move = r.move]
      /\ UNCHANGED <<tree, game, play, probe, objVars>>

\* bound on the decisions made with one MCTSPlayer object
MaxDecisions == 2

\* the same MCTSPlayer object is asked again later in the game: the move it
\* returned and a reply of the opponent have been played, the game is not
\* over, and get_move_values initializes the tree
MCTSCallNext ==
  /\ mc.pc = "done"
  /\ mc.ret = "ok"
  /\ mc.decisions + 1 < MaxDecisions
  /\ \E mine \in {make_move(game, mc.move[1], mc.letter).state} :
        /\ mine.current_winner = None
        /\ \E reply \in ToSet(available_moves(mine)) :
              \E next \in {make_move(mine, reply, Other(mc.letter)).state} :
                 /\ next.current_winner = None
                 /\ empty_squares(next)
                 /\ game' = next
                 /\ tree' = _initialize_tree(next, mc.letter)
                 /\ mc' = [NoMCTS EXCEPT !.pc = "selection", !.letter = mc.letter,
                                         !.n_iterations = mc.n_iterations,
                                         !.decisions = mc.decisions + 1]
  /\ UNCHANGED <<play, probe, objVars>>

MCTSNext ==
  \/ MCTSCall \/ Selection \/ Expansion \/ SimulationPass \/ SimulationDraw
  \/ Backpropagation \/ MCTSReturn \/ MCTSCallNext

SpecMCTS == MCTSInit /\ [][MCTSNext]_vars

(***************************************************************************)
(* C2: on a state where the searching player has a legal move that         *)
(* completes a winning line at once, MCTSPlayer.get_move returns such a    *)
(* move, however expansion and simulation resolve their random choices.    *)
(***************************************************************************)
\* the legal moves of letter that win at once
WinningMoves(s, letter) ==
  {m \in ToSet(available_moves(s)) : make_move(s, m, letter).state.current_winner = letter}

C2_Case ==
  /\ mc.pc = "done"
  /\ mc.n_iterations >= 1
  /\ game.current_winner = None
  /\ WinningMoves(game, mc.letter) # {}

C2_MCTSPlaysWinningMove ==
  C2_Case => mc.ret = "ok" /\ mc.move[1] \in WinningMoves(game, mc.letter)

(***************************************************************************)
(* C17: one MCTS decision runs exactly n_iterations rounds of selection,   *)
(* expansion, simulation and backpropagation, and every round adds exactly *)
(* one to the root's visit count: during the decision the root's n is the  *)
(* number of completed rounds, and after get_move_values it is             *)
(* n_iterations (for a count that is not negative).                        *)
(***************************************************************************)
C17_RootCountsIterations ==
  mc.pc # "idle" =>
     /\ tree[root_id].n = mc.it
     /\ mc.pc = "done" /\ mc.n_iterations >= 0 => tree[root_id].n = mc.n_iterations

C17_Witness ==
  /\ mc.pc = "done"
  /\ mc.ret = "ok"
  /\ mc.n_iterations >= 3
  /\ tree[root_id].n = mc.n_iterations

(***************************************************************************)
(* C18: at every UCT comparison made by selection, the total-visits        *)
(* quantity inside the logarithm equals the root's visit count accumulated *)
(* so far in the decision.  (Selection compares when the root has          *)
(* children; it leaves the tree as it found it.)                           *)
(***************************************************************************)
C18_LogUsesRootVisits ==
  mc.pc = "expansion" /\ tree[root_id].child # <<>> =>
     total_n_in_log(total_n) = tree[root_id].n

(***************************************************************************)
(* C19: whenever expansion is skipped because the selected leaf's visit    *)
(* count is greater than zero, the leaf's state is terminal: it has a      *)
(* winner or no legal move.  (Expansion and the passes of simulation leave *)
(* the leaf's n as selection found it.)                                    *)
(***************************************************************************)
C19_SkippedLeafIsTerminal ==
  mc.pc = "simulation" /\ tree[mc.leaf_id].n > 0 =>
     \/ tree[mc.leaf_id].state.current_winner # None
     \/ available_moves(tree[mc.leaf_id].state) = <<>>

(***************************************************************************)
(* C20: every value backpropagation adds to a node's w is the rollout      *)
(* outcome seen by the player who moved into that node (the opponent of    *)
(* the node's player to move): +1 if that player won the rollout, -1 if    *)
(* that player lost, 0 for a draw, whatever the depth of the simulated     *)
(* node.  simulation's result is the outcome seen by self.letter.          *)
(***************************************************************************)
\* the rollout outcome seen by player p, result being the one seen by letter
OutcomeFor(p, letter, result) == IF p = letter THEN result ELSE -result

C20_ValueFromMoversPerspective ==
  [][mc.pc = "backpropagation" =>
        \A id \in DOMAIN tree :
           tree'[id].n # tree[id].n =>
              tree'[id].w - tree[id].w =
                 OutcomeFor(Other(tree[id].player), mc.letter, mc.result)]_vars

(***************************************************************************)
(* C21: in a rollout ply whose mover is not the searching player, a legal  *)
(* move that wins at once for the mover does not end the simulation at the *)
(* scoring step: the pass goes on to apply a move to the rollout's game.   *)
(* (A pass that ends the simulation with the game as it was has returned   *)
(* from the scoring loop.)                                                 *)
(***************************************************************************)
C21_Case ==
  /\ mc.pc = "simulation"
  /\ mc.sim_player # mc.letter
  /\ mc.sim_game.current_winner = None
  /\ WinningMoves(mc.sim_game, mc.sim_player) # {}

C21_OpponentWinDoesNotReturn ==
  [][C21_Case => ~(mc'.pc = "backpropagation" /\ mc'.sim_game = mc.sim_game)]_vars

(***************************************************************************)
(* C22: every get_move_values call made with one MCTSPlayer object starts  *)
(* from a tree of exactly one node, the root (0,), which holds the given   *)
(* state with n = 0, w = 0, no children and no parent: nothing of an       *)
(* earlier decision is left.  (The state right after the call is the one   *)
(* in which the first selection has not happened yet.)                     *)
(***************************************************************************)
JustCalled == mc.pc = "selection" /\ mc.it = 0

C22_TreeStartsFromRootOnly ==
  JustCalled =>
     /\ DOMAIN tree = {root_id}
     /\ tree[root_id].state = game
     /\ tree[root_id].player = mc.letter
     /\ tree[root_id].n = 0 /\ tree[root_id].w = 0
     /\ tree[root_id].child = <<>> /\ tree[root_id].parent = <<>>

\* the start of the second decision of an object that runs three or more iterations
C22_Witness ==
  /\ JustCalled
  /\ mc.decisions = 1
  /\ mc.n_iterations >= 3
  /\ DOMAIN tree = {root_id}

(***************************************************************************)
(* C24: in every reachable MCTS tree a node's child list is empty or is    *)
(* available_moves() of the node's state, in ascending order; each child   *)
(* has the identifier parent_id + (move,), parent = parent_id, the         *)
(* opponent of the parent's player as its player, and the parent's state   *)
(* with exactly one more piece, of the parent's player, placed by the move.*)
(***************************************************************************)
\* the cells of a board and what a cell holds
Positions(s) == IF s.kind = TTT THEN 0..8 ELSE (0..(rows - 1)) \X (0..(cols - 1))
CellOf(s, p) == IF s.kind = TTT THEN s.board[p] ELSE s.board[p[1]][p[2]]
\* the cell p is where the move goes: the square, or a cell of the column
InMove(s, p, move) == IF s.kind = TTT THEN p = move ELSE p[2] = move

Ascending(seq) == \A i \in 1..(Len(seq) - 1) : seq[i] < seq[i + 1]

OnePieceAdded(pre, post, move, letter) ==
  /\ post.kind = pre.kind
  /\ \E p \in Positions(pre) :
        /\ InMove(pre, p, move)
        /\ CellOf(pre, p) = " "
        /\ CellOf(post, p) = letter
        /\ \A q \in Positions(pre) \ {p} : CellOf(post, q) = CellOf(pre, q)

Front(id) == SubSeq(id, 1, Len(id) - 1)

C24_ChildrenAreLegalMoves ==
  \A id \in DOMAIN tree :
     /\ tree[id].child = <<>> \/ tree[id].child = available_moves(tree[id].state)
     /\ Ascending(tree[id].child)
     /\ \A i \in DOMAIN tree[id].child : Append(id, tree[id].child[i]) \in DOMAIN tree
     /\ id # root_id =>
          /\ Front(id) \in DOMAIN tree
          /\ tree[id].parent = Front(id)
          /\ id[Len(id)] \in ToSet(tree[Front(id)].child)
          /\ tree[id].player = Other(tree[Front(id)].player)
          /\ OnePieceAdded(tree[Front(id)].state, tree[id].state, id[Len(id)],
                           tree[Front(id)].player)

\* a Connect4 tree with grandchildren of the root
C24_Witness ==
  /\ mc.pc # "idle"
  /\ tree[root_id].state.kind = C4
  /\ \E id \in DOMAIN tree : Len(id) = 3

(***************************************************************************)
(* C25: after every completed MCTS iteration, every node that has children *)
(* has a visit count equal to the sum of its children's visit counts, and  *)
(* every node satisfies -n <= w <= n.                                      *)
(***************************************************************************)
\* the sum of n over the children of id, from the i-th on
RECURSIVE SumChildrenN(_, _, _)
SumChildrenN(t, id, i) ==
  IF i > Len(t[id].child) THEN 0
  ELSE t[Append(id, t[id].child[i])].n + SumChildrenN(t, id, i + 1)

BetweenIterations == mc.pc \in {"selection", "done"}

C25_VisitsAddUp ==
  BetweenIterations =>
     \A id \in DOMAIN tree :
        /\ tree[id].child # <<>> => tree[id].n = SumChildrenN(tree, id, 1)
        /\ -tree[id].n <= tree[id].w /\ tree[id].w <= tree[id].n

\* a node below the root with children, visited more than once, after a lost rollout
C25_Witness ==
  /\ BetweenIterations
  /\ \E id \in DOMAIN tree :
        /\ id # root_id
        /\ tree[id].child # <<>>
        /\ tree[id].n >= 2
        /\ tree[id].w < 0

(***************************************************************************)
(* C26: every MCTS simulation ends after at most as many plies as its      *)
(* start state (the state of the simulated node) has empty cells, with a   *)
(* result in {+1, 0, -1}, and the result is 0 only when the board is full  *)
(* with no winner.                                                         *)
(***************************************************************************)
SimulationOver == mc.pc = "backpropagation"

C26_SimulationResult ==
  SimulationOver =>
     /\ mc.result \in {1, 0, -1}
     /\ mc.plies <= num_empty_squares(tree[mc.child_id].state)
     /\ mc.result = 0 => ~empty_squares(mc.sim_game) /\ mc.sim_game.current_winner = None

(***************************************************************************)
(* C27: a simulation that starts from a tree node whose state already has  *)
(* a winner returns +1 if that winner is the searching player and -1       *)
(* otherwise, whatever moves are left to the node's player to move.        *)
(***************************************************************************)
C27_WonNodeValuedForWinner ==
  SimulationOver /\ tree[mc.child_id].state.current_winner # None =>
     mc.result = IF tree[mc.child_id].state.current_winner = mc.letter THEN 1 ELSE -1

(***************************************************************************)
(* C29: MCTS expansion never creates children for a node whose state       *)
(* already has a winner: in every reachable tree no node's parent has a    *)
(* state with current_winner set.  (Searches on a position without a       *)
(* winner.)                                                                *)
(***************************************************************************)
C29_NoChildrenAfterWin ==
  game.current_winner = None =>
     \A id \in DOMAIN tree :
        id # root_id => tree[Front(id)].state.current_winner = None

(***************************************************************************)
(* ab_minimax on game objects: the same search with every copy() and       *)
(* make_move() carried out on the heap.  The objects a call creates are    *)
(* garbage when it returns and are dropped; what was written through a     *)
(* list that an older object holds stays written.                          *)
(***************************************************************************)
\* the heap h without what was allocated since it was h0
\* the one value of a set that holds a single value: The({e(x) : x \in {v}}) is
\* e(v), with v computed once
The(S) == CHOOSE x \in S : TRUE

Release(h, h0) == SubSeq(h, 1, Len(h0))

\* simulate_move(state, col, player) on objects
obj_simulate_move(h, o, col, player) ==
  LET temp_state == copy(h, o)
  IN  obj_make_move(temp_state.heap, temp_state.obj, col, player)

RECURSIVE obj_minimax(_, _, _, _, _, _, _, _)
RECURSIVE obj_minimax_loop(_, _, _, _, _, _, _, _, _, _, _)
obj_minimax(me, h, o, player, alpha, beta, depth, max_depth) ==
  LET other_player == Other(player)
      state == Value(h, o)
  IN  IF state.current_winner = other_player
      THEN [heap |-> h, position |-> <<>>,
            score |-> IF other_player = me THEN num_empty_squares(state) + 1
                      ELSE -(num_empty_squares(state) + 1)]
      ELSE IF ~empty_squares(state)
      THEN [heap |-> h, position |-> <<>>, score |-> 0]
      ELSE IF depth = max_depth
      THEN [heap |-> h, position |-> <<>>, score |-> evaluate_state(me, state)]
      ELSE obj_minimax_loop(me, h, o, player, alpha, beta, depth, max_depth,
                            available_moves(state), 1,
                            [position |-> <<>>,
                             score |-> IF player = me THEN -Inf ELSE Inf])

obj_minimax_loop(me, h, o, player, alpha, beta, depth, max_depth, moves, i, best) ==
  IF i > Len(moves) THEN [heap |-> h, position |-> best.position, score |-> best.score]
  ELSE
    LET col == moves[i]
        \* the rest of the loop body, once the recursive call has returned rec
        body(rec) ==
          LET sim_score == [position |-> <<col>>, score |-> rec.score]
              better == IF player = me THEN sim_score.score > best.score
                        ELSE sim_score.score < best.score
              nbest == IF better THEN sim_score ELSE best
          IN  [h2 |-> Release(rec.heap, h),
               best |-> nbest,
               alpha |-> IF player = me THEN max2(alpha, nbest.score) ELSE alpha,
               beta |-> IF player = me THEN beta ELSE min2(beta, nbest.score)]
        next(b) ==
          IF prune(b.alpha, b.beta)
          THEN [heap |-> b.h2, position |-> b.best.position, score |-> b.best.score]
          ELSE obj_minimax_loop(me, b.h2, o, player, b.alpha, b.beta, depth, max_depth,
                                moves, i + 1, b.best)
        call(temp_state) ==
          The({next(b) : b \in {body(rec) :
                 rec \in {obj_minimax(me, temp_state.heap, temp_state.obj, Other(player),
                                      alpha, beta, depth + 1, max_depth)}}})
    IN  The({call(temp_state) : temp_state \in {obj_simulate_move(h, o, col, player)}})

\* the for loop of get_move_values(game) on the object o, from the i-th move on
RECURSIVE obj_get_move_values(_, _, _, _, _, _)
obj_get_move_values(me, h, o, moves, i, move_values) ==
  IF i > Len(moves) THEN [heap |-> h, move_values |-> move_values]
  ELSE LET call(made) ==
             {[h2 |-> Release(rec.heap, h),
               move_values |-> Append(move_values, [move |-> moves[i], value |-> rec.score])] :
                rec \in {obj_minimax(me, made.heap, made.obj, me, -Inf, Inf, 0,
                                     default_max_depth)}}
           next(b) == obj_get_move_values(me, b.h2, o, moves, i + 1, b.move_values)
           made_of(temp_game) == obj_make_move(temp_game.heap, temp_game.obj, moves[i], me)
       IN  The({next(b) : b \in UNION {call(made) :
                  made \in {made_of(temp_game) : temp_game \in {copy(h, o)}}}})

\* ab_minimax(me).get_move(o)
obj_get_move(me, h, o) ==
  The({IF Len(r.move_values) = 0
       THEN [heap |-> r.heap, ret |-> "ValueError", move |-> <<>>]
       ELSE [heap |-> r.heap, ret |-> "ok",
             move |-> <<r.move_values[max_by_value(r.move_values, 1, 1)].move>>] :
       r \in {obj_get_move_values(me, h, o, available_moves(Value(h, o)), 1, <<>>)}})

(***************************************************************************)
(* Specification SpecFrame: a caller holds the game object g and passes it *)
(* to one strategy, ab_minimax(letter, max_depth).get_move(g) or           *)
(* MCTSPlayer(letter, n_iterations).get_move(g).  game is the value of g   *)
(* at call time.  MCTSPlayer touches g in _initialize_tree only; what it   *)
(* moves on afterwards comes from deepcopy, a new object each time.        *)
(***************************************************************************)
\* a new game object brought to the position s by make_move calls: its cell
\* lists hold the board of s, its fields the winner and the last move
ObjAt(s) ==
  LET n == NewGame(<<>>, s.kind)
  IN  [heap |-> WriteBoard(n.heap, n.obj, s.board),
       obj |-> [n.obj EXCEPT !.current_winner = s.current_winner,
                             !.last_move = s.last_move]]

\* the start positions with at most five empty cells
FrameStarts == {st \in MCTSStarts : Len(st.moves) >= 4}

FrameInit ==
  /\ \E st \in FrameStarts :
        /\ game = PlayMoves(NewValue(st.kind), Alternate(st.moves))
        /\ play = [NoPlay EXCEPT !.letter = ToMove(st.moves)]
  /\ heap = ObjAt(game).heap
  /\ g = ObjAt(game).obj
  /\ c = NullObj
  /\ last = NoCall
  /\ calls = 0
  /\ probe = NoProbe
  /\ MCTSIdle

\* ab_minimax(letter, max_depth).get_move(g); __init__ stores max_depth and
\* no method reads it
ABGetMoveG ==
  /\ last.op = "none"
  /\ mc.pc = "idle"
  /\ \E letter \in Letters : \E r \in {obj_get_move(letter, heap, g)} :
        /\ heap' = r.heap
        /\ last' = [NoCall EXCEPT !.op = "get_move", !.letter = letter, !.ret = r.ret,
                                  !.move = IF r.ret = "ok" THEN r.move[1] ELSE 0,
                                  !.pre = Value(heap, g)]
        /\ \E max_depth \in -1..MaxDepth :
              probe' = [NoProbe EXCEPT !.op = "get_move", !.me = letter,
                                       !.max_depth = max_depth,
                                       !.ret = r.ret, !.move = r.move]
  /\ calls' = calls + 1
  /\ UNCHANGED <<g, c, game, play, tree, mc>>

\* MCTSPlayer(play.letter, n_iterations).get_move(g) is entered: the root of
\* the tree holds g.copy(), kept as c
MCTSCallG ==
  \E n_iterations \in -1..MaxIterations :
     LET r == copy(heap, g)
     IN  /\ last.op = "none"
         /\ mc.pc = "idle"
         /\ heap' = r.heap
         /\ c' = r.obj
         /\ tree' = _initialize_tree(Value(r.heap, r.obj), play.letter)
         /\ mc' = [NoMCTS EXCEPT !.pc = "selection", !.letter = play.letter,
                                 !.n_iterations = n_iterations]
         /\ UNCHANGED <<g, last, calls, game, play, probe>>

FrameNext ==
  \/ ABGetMoveG \/ MCTSCallG \/ Selection \/ Expansion \/ SimulationPass
  \/ SimulationDraw \/ Backpropagation \/ MCTSReturn

SpecFrame == FrameInit /\ [][FrameNext]_vars

(***************************************************************************)
(* C11: a call of ab_minimax.get_move or MCTSPlayer.get_move leaves the    *)
(* caller's game object as it was: board, current_winner and last_move     *)
(* after the call (and at every step of the MCTS search) are those at call *)
(* time.                                                                   *)
(***************************************************************************)
C11_SearchLeavesGameUnchanged ==
  (last.op = "get_move" \/ mc.pc # "idle") => Value(heap, g) = game

\* a minimax search that tried moves on the Connect4 board and returned one
C11_Witness ==
  /\ last.op = "get_move"
  /\ last.ret = "ok"
  /\ g.kind = C4
  /\ Value(heap, g) = last.pre

(***************************************************************************)
(* C12: when the input state has a legal move (and n_iterations >= 1 for   *)
(* MCTS), the move that ab_minimax.get_move and MCTSPlayer.get_move return *)
(* is one of the input state's available_moves() at call time.             *)
(***************************************************************************)
C12_ReturnedMoveIsLegal ==
  /\ (last.op = "get_move" /\ available_moves(game) # <<>>) =>
        /\ last.ret = "ok"
        /\ last.move \in ToSet(available_moves(game))
  /\ (mc.pc = "done" /\ mc.n_iterations >= 1 /\ available_moves(game) # <<>>) =>
        /\ mc.ret = "ok"
        /\ mc.move[1] \in ToSet(available_moves(game))

\* an MCTS decision of several iterations that returned a move other than
\* the first available one
C12_Witness ==
  /\ mc.pc = "done"
  /\ mc.n_iterations >= 2
  /\ mc.ret = "ok"
  /\ mc.move[1] # available_moves(game)[1]

(***************************************************************************)
(* C13: when ab_minimax.get_move or MCTSPlayer.get_move is called on a     *)
(* state with no available move, the absence of a legal move is detected   *)
(* before max() is applied to the empty move-value dict: the call does not *)
(* end in the ValueError of max().                                         *)
(***************************************************************************)
C13_NoLegalMoveDetected ==
  available_moves(game) = <<>> =>
    /\ last.op = "get_move" => last.ret # "ValueError"
    /\ mc.pc = "done" => mc.ret # "ValueError"

(***************************************************************************)
(* C14: a non-positive n_iterations of MCTSPlayer and a negative max_depth *)
(* of ab_minimax are rejected at the entry of get_move: the call signals   *)
(* the configuration error and no selection, expansion, simulation or      *)
(* minimax recursion runs (no move is returned, max() is not reached, the  *)
(* tree is not built).                                                     *)
(***************************************************************************)
C14_BadConfigurationRejected ==
  /\ (last.op = "get_move" /\ probe.max_depth < 0) => last.ret \notin {"ok", "ValueError"}
  /\ (mc.pc # "idle" /\ mc.n_iterations <= 0) =>
        /\ tree = <<>>
        /\ mc.pc = "done" => mc.ret \notin {"ok", "ValueError"}

(***************************************************************************)
(* C15: during ab_minimax.get_move no minimax call is made with a depth    *)
(* greater than the max_depth the player was constructed with, for every   *)
(* configured max_depth >= 0.                                              *)
(***************************************************************************)
C15_DepthWithinMaxDepth ==
  probe.op = "get_move" => probe.deepest <= probe.max_depth

(***************************************************************************)
(* C16: every score minimax returns and every value in the result of       *)
(* ab_minimax.get_move_values is finite and lies in                        *)
(* [-(boardSize + 1), boardSize + 1], boardSize being 9 for tic-tac-toe    *)
(* and 42 for connect-four; the initial -inf / +inf of best is never       *)
(* returned.                                                               *)
(***************************************************************************)
boardSize(s) == IF s.kind = TTT THEN 9 ELSE rows * cols

InScoreRange(s, score) == score >= -(boardSize(s) + 1) /\ score <= boardSize(s) + 1

C16_ScoresBounded ==
  /\ probe.op = "minimax" =>
        /\ InScoreRange(game, probe.ab.score)
        /\ InScoreRange(game, probe.full.score)
  /\ probe.op = "get_move" =>
        \A i \in DOMAIN probe.values : InScoreRange(game, probe.values[i])

\* a get_move whose values hold a loss and a win worth more than one
C16_Witness ==
  /\ probe.op = "get_move"
  /\ \E i \in DOMAIN probe.values : probe.values[i] < 0
  /\ \E i \in DOMAIN probe.values : probe.values[i] > 1

(***************************************************************************)
(* Specification SpecGames: play_tictactoe(game, x_player, o_player) and   *)
(* play_connect4(game, x_player, o_player) on a game in progress, with     *)
(* players that may return any legal move.  The loop runs to its end:      *)
(* nothing else is scheduled.                                              *)
(***************************************************************************)
\* the positions passed as game: no winner yet, a move is left
GameStarts ==
  {st \in MCTSStarts :
      LET s == PlayMoves(NewValue(st.kind), Alternate(st.moves))
      IN  s.current_winner = None /\ empty_squares(s)}

GamesInit ==
  /\ \E st \in GameStarts : game = PlayMoves(NewValue(st.kind), Alternate(st.moves))
  /\ play = NoPlay
  /\ probe = NoProbe
  /\ ObjIdle
  /\ MCTSIdle

\* the loop condition: play_tictactoe tests available_moves(), play_connect4
\* empty_squares()
loop_condition(state) ==
  IF state.kind = TTT THEN Len(available_moves(state)) > 0 ELSE empty_squares(state)

\* a full board takes the place of a winner: the return in the loop is skipped
winner_return_unless_full(state, letter) ==
  IF state.current_winner # None /\ empty_squares(state) THEN letter ELSE "None"

\* "if game.current_winner: return letter" after a successful move
winner_return(state, letter) ==
  IF state.current_winner # None THEN letter ELSE "None"

\* one pass through the body of the while loop of either function
GamesTurn ==
  /\ play.result = "None"
  /\ loop_condition(game)
  /\ \E square \in ToSet(available_moves(game)) :
       \E r \in {make_move(game, square, play.letter)} :
          IF r.ret = "True"
          THEN /\ game' = r.state
               /\ play' = [play EXCEPT
                             !.game_moves = Append(@, square),
                             !.result = winner_return(r.state, play.letter),
                             !.letter = IF winner_return(r.state, play.letter) # "None"
                                        THEN @ ELSE Other(@)]
          ELSE UNCHANGED <<game, play>>
  /\ UNCHANGED <<heap, g, c, last, calls, probe, tree, mc>>

\* the loop ends: return "Tie"
GamesReturnTie ==
  /\ play.result = "None"
  /\ ~loop_condition(game)
  /\ play' = [play EXCEPT !.result = "Tie"]
  /\ UNCHANGED <<heap, g, c, last, calls, probe, game, tree, mc>>

GamesNext == GamesTurn \/ GamesReturnTie

SpecGames == GamesInit /\ [][GamesNext]_vars /\ WF_vars(GamesNext)

(***************************************************************************)
(* C23: with players that always return a legal move, play_tictactoe and   *)
(* play_connect4 terminate; every successful move fills one more cell, so  *)
(* there is at most one per board cell; the value returned is the letter   *)
(* of the player whose move set current_winner (also when that move fills  *)
(* the board), and "Tie" exactly when the board is full and current_winner *)
(* is None.                                                                *)
(***************************************************************************)
C23_ResultIsRight ==
  /\ play.result \in {"None", "X", "O", "Tie"}
  /\ Len(play.game_moves) <= boardSize(game)
  /\ play.result \in Letters => game.current_winner = play.result /\ play.letter = play.result
  /\ play.result = "Tie" => ~empty_squares(game) /\ game.current_winner = None
  /\ play.result # "None" /\ game.current_winner # None => play.result = game.current_winner
  /\ play.result = "None" => game.current_winner = None

C23_OneMovePerCell ==
  /\ num_empty_squares(game) - num_empty_squares(game') =
        Len(play'.game_moves) - Len(play.game_moves)
  /\ play'.result \in Letters /\ play.result = "None" =>
        game.current_winner = None /\ game'.current_winner = play.letter

C28_MoversAlternate ==
  probe.op = "get_move" =>
     \A i \in DOMAIN probe.repeated : ~probe.repeated[i]

(***************************************************************************)
(* C30: a successful make_move changes exactly one board cell, from empty  *)
(* to the mover's letter, and sets last_move to the move; every other cell *)
(* is unchanged, so no non-empty cell is overwritten.  For Connect4 the    *)
(* changed cell is the lowest empty row of the chosen column.              *)
(***************************************************************************)
\* the cell p of the Connect4 board is the lowest empty one of column col
LowestEmpty(s, p, col) ==
  /\ p[2] = col
  /\ CellOf(s, p) = " "
  /\ \A r \in (p[1] + 1)..(rows - 1) : s.board[r][col] # " "

C30_MakeMoveFillsOneCell ==
  LastSucceeded =>
    /\ Target.last_move = <<last.move>>
    /\ \E p \in Positions(last.pre) :
          /\ CellOf(last.pre, p) = " "
          /\ CellOf(Target, p) = last.letter
          /\ \A q \in Positions(last.pre) \ {p} : CellOf(Target, q) = CellOf(last.pre, q)
          /\ last.pre.kind = C4 => LowestEmpty(last.pre, p, last.move)

\* a Connect4 piece that lands on another piece
C30_Witness ==
  /\ LastSucceeded
  /\ last.pre.kind = C4
  /\ last.pre.board[rows - 1][last.move] # " "
  /\ Target.board[rows - 2][last.move] = last.letter
  /\ last.pre.board[rows - 2][last.move] = " "

(***************************************************************************)
(* C31: in every state reached by make_move calls, for both games,         *)
(* available_moves() is empty if and only if empty_squares() is False,     *)
(* that is num_empty_squares() == 0; on a Connect4 board no empty cell     *)
(* lies below a piece of the same column.                                  *)
(***************************************************************************)
NoEmptyCellBelowPiece(s) ==
  s.kind = C4 =>
     \A col \in 0..(cols - 1) : \A r \in 0..(rows - 2) :
        s.board[r][col] # " " => s.board[r + 1][col] # " "

C31_NoMovesIffBoardFull ==
  /\ (available_moves(game) = <<>>) <=> ~empty_squares(game)
  /\ ~empty_squares(game) <=> (num_empty_squares(game) = 0)
  /\ NoEmptyCellBelowPiece(game)

\* a Connect4 board filled to the last cell
C31_Witness ==
  /\ game.kind = C4
  /\ Len(play.game_moves) > 0
  /\ available_moves(game) = <<>>
  /\ ~empty_squares(game)

(***************************************************************************)
(* play_tictactoe and play_connect4 with players that may return any move  *)
(* (tictactoe.py 112-188, connect4.py 146-207).  last records the latest   *)
(* game.make_move(move, letter) call of the loop.                          *)
(***************************************************************************)
TurnsInit == GamesInit

\* the turn changes hands although make_move returned False
after_move_always_switches(p, r, move) ==
  IF r.ret = "True"
  THEN [p EXCEPT !.game_moves = Append(@, move),
                 !.result = winner_return(r.state, p.letter),
                 !.letter = IF winner_return(r.state, p.letter) # "None"
                            THEN @ ELSE Other(@)]
  ELSE IF r.ret = "False" THEN [p EXCEPT !.letter = Other(@)]
  ELSE [p EXCEPT !.result = r.ret]

\* letter, game_moves and the return value after "if game.make_move(move,
\* letter):"; an exception raised by make_move leaves the function
after_move(p, r, move) ==
  IF r.ret = "True"
  THEN [p EXCEPT !.game_moves = Append(@, move),
                 !.result = winner_return(r.state, p.letter),
                 !.letter = IF winner_return(r.state, p.letter) # "None"
                            THEN @ ELSE Other(@)]
  ELSE IF r.ret = "False" THEN p
  ELSE [p EXCEPT !.result = r.ret]

\* one pass through the body of the while loop; the player's get_move
\* returns move
TurnsTurn ==
  /\ play.result = "None"
  /\ loop_condition(game)
  /\ \E move \in MoveInputs(game.kind) :
       \E r \in {make_move(game, move, play.letter)} :
          /\ game' = r.state
          /\ play' = after_move(play, r, move)
          /\ last' = [op |-> "make_move", on |-> "game", move |-> move,
                      letter |-> play.letter, ret |-> r.ret,
                      pre |-> NoValue, other |-> NoValue]
  /\ UNCHANGED <<heap, g, c, calls, probe, tree, mc>>

TurnsNext == TurnsTurn \/ GamesReturnTie

SpecTurns == TurnsInit /\ [][TurnsNext]_vars

(***************************************************************************)
(* C32: X makes the first move and the turn passes to the other letter     *)
(* exactly after each successful move; a move that make_move rejects       *)
(* leaves the board and game_moves as they were and the same letter is     *)
(* asked again; so the i-th entry of game_moves (from 0) was played by X   *)
(* iff i is even.                                                          *)
(***************************************************************************)
\* the letter to be asked is X exactly when an even number of moves was made
LetterByParity ==
  play.result = "None" => (play.letter = "X" <=> Len(play.game_moves) % 2 = 0)

\* post is pre with one empty cell filled with letter
OneCellFilled(pre, post, letter) ==
  \E p \in Positions(pre) :
     /\ CellOf(pre, p) = " "
     /\ CellOf(post, p) = letter
     /\ \A q \in Positions(pre) \ {p} : CellOf(post, q) = CellOf(pre, q)

C32_Step ==
  \/ play.result = "None" /\ play'.result = "Tie" /\ game' = game
  \/ /\ play.result = "None"
     /\ last'.op = "make_move"
     /\ last'.letter = play.letter
     /\ last'.ret = "True" =>
           /\ OneCellFilled(game, game', play.letter)
           /\ play'.game_moves = Append(play.game_moves, last'.move)
           /\ play.letter = "X" <=> Len(play.game_moves) % 2 = 0
           /\ play'.result = "None" => play'.letter = Other(play.letter)
     /\ last'.ret = "False" => game' = game /\ play' = play
     /\ last'.ret \notin {"True", "False"} =>
           game' = game /\ play'.game_moves = play.game_moves

C32_TurnsAlternate ==
  /\ []LetterByParity
  /\ [][C32_Step]_vars

\* O's move was rejected after X's successful first move, and O is asked again
C32_Witness ==
  /\ last.op = "make_move"
  /\ last.ret = "False"
  /\ last.letter = "O"
  /\ play.letter = "O"
  /\ play.result = "None"
  /\ Len(play.game_moves) = 1

(***************************************************************************)
(* play_tictactoe with each pairing of the player classes choose_player    *)
(* can return (game.py 155-160).  play holds the frame of play_tictactoe:  *)
(* letter, game_moves, the two players' classes and the way the function   *)
(* was left.                                                               *)
(***************************************************************************)
PlayerTypes == {"HumanPlayer", "ab_minimax", "MCTSPlayer"}

\* the classes of player.py that define get_move_values
provides_get_move_values(type) == type \in {"ab_minimax", "MCTSPlayer"}

\* the positions the games start from: a few moves in, so that every game is
\* followed to its end
PairsStarts == {st \in GameStarts : st.kind = TTT}

PairsInit ==
  /\ \E st \in PairsStarts : game = PlayMoves(NewValue(st.kind), Alternate(st.moves))
  /\ \E x \in PlayerTypes : \E o \in PlayerTypes :
        play = [letter |-> "X", result |-> "None", game_moves |-> <<>>,
                x_player |-> x, o_player |-> o]
  /\ probe = NoProbe
  /\ ObjIdle
  /\ MCTSIdle

\* the player whose get_move_values and get_move the turn calls
player_of_turn(p) == IF p.letter = "X" THEN p.x_player ELSE p.o_player

\* Step 3: "if isinstance(x_player, MCTSPlayer) or isinstance(o_player,
\* MCTSPlayer)" the turn calls get_move_values of the player of the turn
calls_get_move_values(p) == p.x_player = "MCTSPlayer" \/ p.o_player = "MCTSPlayer"

\* what get_move can return: HumanPlayer insists on an available move,
\* ab_minimax returns the first move of the largest score, MCTSPlayer a child
\* of the root, whose rollouts are random
get_move_of(type, letter, state) ==
  IF type = "ab_minimax" THEN {get_move(letter, TRUE, state).move[1]}
  ELSE ToSet(available_moves(state))

\* one pass through the body of the while loop
PairsTurn ==
  /\ play.result = "None"
  /\ Len(available_moves(game)) > 0
  /\ IF calls_get_move_values(play) /\ ~provides_get_move_values(player_of_turn(play))
     THEN /\ play' = [play EXCEPT !.result = "AttributeError"]
          /\ game' = game
     ELSE \E square \in get_move_of(player_of_turn(play), play.letter, game) :
             \E r \in {make_move(game, square, play.letter)} :
                /\ game' = r.state
                /\ play' = after_move(play, r, square)
  /\ UNCHANGED <<heap, g, c, last, calls, probe, tree, mc>>

PairsNext == PairsTurn \/ PlayReturnTie

SpecPairs == PairsInit /\ [][PairsNext]_vars

(***************************************************************************)
(* C33: for every pairing of HumanPlayer, ab_minimax and MCTSPlayer as X   *)
(* and O, play_tictactoe calls get_move_values only on a player that       *)
(* provides it: no turn ends in an attribute error.                        *)
(***************************************************************************)
C33_NoAttributeError == play.result # "AttributeError"

(***************************************************************************)
(* play_connect4 with its counters (connect4.py 146-207): play holds the   *)
(* frame of play_connect4, with the dicts blocked_wins and missed_wins     *)
(* that run_connect4 passes (game.py 114-119).  The players may return any *)
(* column.                                                                 *)
(***************************************************************************)
\* bound on the number of moves of a game that are followed
MaxTurns == 4

\* start positions: alternating successful moves that X began
BlocksStarts ==
  { <<>>,
    <<0, 3, 0, 3, 1, 3>>,
    <<0, 1, 2, 0, 5, 1, 6, 2>>,
    <<3, 6, 6, 3, 0, 1, 3, 0, 0, 5, 1, 1, 1, 2, 0, 6, 0, 3, 2,
      2, 3, 4, 2, 3, 2, 4, 4, 0, 2, 1, 6, 5, 6, 4, 5, 6, 4, 5>> }

BlocksInit ==
  /\ \E ms \in BlocksStarts : game = PlayMoves(Connect4_init, Alternate(ms))
  /\ play = [letter |-> "X", result |-> "None", game_moves |-> <<>>,
             blocked_wins |-> [l \in Letters |-> 0],
             missed_wins |-> [l \in Letters |-> 0]]
  /\ probe = NoProbe
  /\ ObjIdle
  /\ MCTSIdle

\* "temp_game.make_move(move, letter) and temp_game.current_winner == letter"
\* on a copy temp_game of state
wins_with(state, move, letter) ==
  \E r \in {make_move(state, move, letter)} :
     r.ret = "True" /\ r.state.current_winner = letter

\* any(temp_game.make_move(m, opponent) and temp_game.current_winner ==
\* opponent for m in moves): every call is made on the same temp_game
RECURSIVE any_wins(_, _, _, _)
any_wins(temp_game, moves, i, opponent) ==
  IF i > Len(moves) THEN FALSE
  ELSE \E r \in {make_move(temp_game, moves[i], opponent)} :
          \/ r.ret = "True" /\ r.state.current_winner = opponent
          \/ any_wins(r.state, moves, i + 1, opponent)


\* Step 4: what is added to blocked_wins[letter] after game.make_move(col,
\* letter) has succeeded and left state
blocked_wins_step(state, available_moves_before, col, letter) ==
  LET opponent == Other(letter)
      winning == {move \in available_moves_before : wins_with(state, move, opponent)}
      count(n) ==
        IF n = 0 THEN 0
        ELSE \* temp_game = game.copy(); temp_game.make_move(col, letter)
             LET blocked(temp_game) ==
                   ~any_wins(temp_game, available_moves(temp_game), 1, opponent)
             IN  IF The({blocked(t) : t \in {make_move(state, col, letter).state}})
                 THEN n ELSE 0
  IN  The({count(n) : n \in {Cardinality(winning)}})

\* Step 3: what is added to missed_wins[letter]
missed_wins_step(before, available_moves_before, col, letter) ==
  LET immediate_winning_moves ==
        {move \in available_moves_before : wins_with(before, move, letter)}
  IN  IF immediate_winning_moves # {} /\ col \notin immediate_winning_moves
      THEN 1 ELSE 0

\* one pass through the body of the while loop; the player's get_move
\* returns col
BlocksTurn ==
  /\ play.result = "None"
  /\ Len(play.game_moves) < MaxTurns
  /\ empty_squares(game) = TRUE
  /\ \E col \in ColInputs :
       \E r \in {make_move(game, col, play.letter)} :
          /\ game' = r.state
          /\ IF r.ret = "True"
             THEN \E before \in {ToSet(available_moves(game))} :
                     play' = [after_move(play, r, col) EXCEPT
                                !.missed_wins[play.letter] =
                                    @ + missed_wins_step(game, before, col, play.letter),
                                !.blocked_wins[play.letter] =
                                    @ + blocked_wins_step(r.state, before, col, play.letter)]
             ELSE play' = play
  /\ UNCHANGED <<heap, g, c, last, calls, probe, tree, mc>>

BlocksNext == BlocksTurn \/ GamesReturnTie

SpecBlocks == BlocksInit /\ [][BlocksNext]_vars

(***************************************************************************)
(* C34: blocked_wins[letter] counts the letter's turns at which the        *)
(* opponent had at least one immediately winning column before the move    *)
(* and has none after it: a turn adds one to it in that case and nothing   *)
(* otherwise, and a turn changes no other entry.                           *)
(***************************************************************************)
\* the columns in which letter wins at once
ImmediateWins(state, letter) ==
  {col \in ToSet(available_moves(state)) : wins_with(state, col, letter)}

C34_Step ==
  IF Len(play'.game_moves) = Len(play.game_moves) + 1
  THEN /\ play'.blocked_wins[Other(play.letter)] = play.blocked_wins[Other(play.letter)]
       /\ game'.current_winner = None =>
             play'.blocked_wins[play.letter] - play.blocked_wins[play.letter] =
                IF /\ ImmediateWins(game, Other(play.letter)) # {}
                   /\ ImmediateWins(game', Other(play.letter)) = {}
                THEN 1 ELSE 0
  ELSE play'.blocked_wins = play.blocked_wins

C34_BlockedWinsCountsBlocks == [][C34_Step]_vars

====
